---- MODULE Spec2Model ----
(***************************************************************************)
(* The evoter program (programs/evoter/src/lib.rs): polls stored at        *)
(* program-derived addresses, one VoteRecord account per (poll, voter),    *)
(* and the three instructions create_poll, vote_poll and close_poll.       *)
(*                                                                         *)
(* An instruction is one atomic transaction.  Anchor first deserializes    *)
(* the accounts, then runs every `init` constraint, then the remaining     *)
(* constraints (has_one), and only then the handler body; an error at any  *)
(* point discards every write of the transaction.                          *)
(***************************************************************************)
EXTENDS Integers, Sequences, FiniteSets, TLC

VARIABLES
    polls,          \* PollAccount accounts: address -> PollAccount
    vote_records,   \* VoteRecord accounts: address -> VoteRecord
    last            \* the last instruction submitted and its result

vars == <<polls, vote_records, last>>

(***************************************************************************)
(* Program constants.                                                      *)
(***************************************************************************)
MAX_OPTIONS == 10
MAX_QUESTION_LEN == 200
MAX_OPTION_LEN == 50

(***************************************************************************)
(* Bounds of the model.                                                    *)
(***************************************************************************)
\* Number of poll ids a creator may use: the ledger holds at most one poll per
\* principal and poll id.
NumPollIds == 1

Principals == {"A", "B"}
PollIds == 1..NumPollIds
\* u8 option indexes submitted: valid ones, and the first invalid one of a poll
\* of 2 options and of a poll of MAX_OPTIONS options.
OptionIndexes == {0, 1, 2, MAX_OPTIONS}

\* Pubkey::default(), the creator field of a freshly allocated (zeroed) account.
DefaultPubkey == "default"

(***************************************************************************)
(* Strings are sequences of bytes; String::len() is Len.                   *)
(***************************************************************************)
RECURSIVE Str(_, _)
\* The string of n bytes c.
Str(n, c) ==
    IF n = 0 THEN ""
    ELSE IF n % 2 = 0 THEN LET half == Str(n \div 2, c) IN half \o half
    ELSE Str(n - 1, c) \o c
\* The list of n strings s.
Rep(n, s) == [i \in 1..n |-> s]

\* Arguments (question, options) submitted to create_poll.
ValidInputs ==
    { [question |-> Str(0, "q"), options |-> <<Str(1, "a"), Str(MAX_OPTION_LEN, "b")>>],
      [question |-> Str(MAX_QUESTION_LEN, "q"),
       options |-> Rep(MAX_OPTIONS, Str(MAX_OPTION_LEN, "c"))] }

InvalidInputs ==
    { [question |-> Str(3, "q"), options |-> <<>>],
      [question |-> Str(3, "q"), options |-> <<Str(3, "a")>>],
      [question |-> Str(3, "q"), options |-> Rep(MAX_OPTIONS + 1, Str(3, "a"))],
      [question |-> Str(MAX_QUESTION_LEN + 1, "q"), options |-> <<Str(3, "a"), Str(3, "b")>>],
      [question |-> Str(3, "q"), options |-> <<Str(MAX_OPTION_LEN + 1, "a"), Str(3, "b")>>],
      [question |-> Str(3, "q"), options |-> <<Str(3, "a"), Str(0, "b")>>],
      \* inputs that break two rules at once
      [question |-> Str(MAX_QUESTION_LEN + 1, "q"), options |-> <<Str(3, "a")>>],
      [question |-> Str(MAX_QUESTION_LEN + 1, "q"),
       options |-> Rep(MAX_OPTIONS + 1, Str(0, "a"))],
      [question |-> Str(MAX_QUESTION_LEN + 1, "q"),
       options |-> <<Str(MAX_OPTION_LEN + 1, "a"), Str(3, "b")>>],
      [question |-> Str(3, "q"), options |-> <<Str(0, "a"), Str(MAX_OPTION_LEN + 1, "b")>>],
      [question |-> Str(3, "q"), options |-> <<Str(MAX_OPTION_LEN + 1, "a"), Str(0, "b")>>] }

CreateInputs == ValidInputs \cup InvalidInputs

(***************************************************************************)
(* u64 counters.  A u64 is four 16-bit limbs, most significant first, so   *)
(* that the full 64-bit range is representable.                            *)
(***************************************************************************)
LimbBase == 2^16
U64Zero == <<0, 0, 0, 0>>
U64Max == <<LimbBase - 1, LimbBase - 1, LimbBase - 1, LimbBase - 1>>

\* v + 1 on the limbs, for v # U64Max: the carry ripples from the last limb.
U64Succ(v) ==
    IF v[4] < LimbBase - 1 THEN [v EXCEPT ![4] = @ + 1]
    ELSE IF v[3] < LimbBase - 1 THEN [v EXCEPT ![4] = 0, ![3] = @ + 1]
    ELSE IF v[2] < LimbBase - 1 THEN [v EXCEPT ![4] = 0, ![3] = 0, ![2] = @ + 1]
    ELSE [v EXCEPT ![4] = 0, ![3] = 0, ![2] = 0, ![1] = @ + 1]

\* Faulty variant: u64::wrapping_add(1), u64::MAX + 1 is 0.
checked_add_1_Wrapping(v) ==
    IF v = U64Max THEN [some |-> TRUE, val |-> U64Zero]
    ELSE [some |-> TRUE, val |-> U64Succ(v)]

\* u64::checked_add(1): None when the sum does not fit in 64 bits.
checked_add_1(v) ==
    IF v = U64Max THEN [some |-> FALSE, val |-> U64Zero]
    ELSE [some |-> TRUE, val |-> U64Succ(v)]

\* The number a u64 holds (for counters below 2^31).
U64ToNat(v) == ((v[1] * LimbBase + v[2]) * LimbBase + v[3]) * LimbBase + v[4]

(***************************************************************************)
(* Program-derived addresses: the address is a function of the seeds.      *)
(***************************************************************************)
\* seeds = [b"poll", creator.key(), poll_id.to_le_bytes()]
PollSeeds(creator, poll_id) == <<"poll", creator, poll_id>>

\* Faulty variant: the voter is no seed, a poll has one vote record.
VoteRecordSeeds_NoVoter(poll, voter, option_index) == <<"vote", poll>>

\* Faulty variant: the option index is one more seed of the vote record.
VoteRecordSeeds_WithOption(poll, voter, option_index) ==
    <<"vote", poll, voter, option_index>>

\* seeds = [b"vote", poll.key(), voter.key()]; the instruction argument
\* option_index is in scope of the constraint and is not a seed.
VoteRecordSeeds(poll, voter, option_index) == <<"vote", poll, voter>>

(***************************************************************************)
(* Accounts.                                                               *)
(***************************************************************************)
\* A PollAccount as `init` allocates it: zeroed data.
ZeroPoll ==
    [creator |-> DefaultPubkey, poll_id |-> 0, question |-> "", options |-> <<>>,
     votes |-> <<>>, is_active |-> FALSE]

\* A VoteRecord as `init` allocates it.
ZeroVoteRecord == [voter |-> DefaultPubkey, poll |-> <<>>, option_index |-> 0]

\* The account map f with the account at address k set to v.
Put(f, k, v) == [x \in DOMAIN f \cup {k} |-> IF x = k THEN v ELSE f[x]]

\* The ledger state a transaction works on.
Ledger(ps, vs) == [polls |-> ps, vote_records |-> vs]

\* The outcome of running an instruction: the error (or "Ok") and the ledger
\* as written so far.
Outcome(err, ps, vs) == [err |-> err, polls |-> ps, vote_records |-> vs]

\* Faulty variant: the writes of a failed instruction are kept.
Commit_Always(before, out) == Ledger(out.polls, out.vote_records)

\* A transaction commits its writes only when the instruction returns Ok.
Commit(before, out) ==
    IF out.err = "Ok" THEN Ledger(out.polls, out.vote_records) ELSE before

(***************************************************************************)
(* create_poll.                                                            *)
(***************************************************************************)
RECURSIVE ValidateOptions(_, _)
\* for opt in &options { ... }: the first option, in order, that breaks a rule
\* decides the error; within one option the length is checked before emptiness.
ValidateOptions(options, k) ==
    IF k > Len(options) THEN "Ok"
    ELSE IF ~(Len(options[k]) <= MAX_OPTION_LEN) THEN "OptionTooLong"
    ELSE IF ~(Len(options[k]) > 0) THEN "EmptyOption"
    ELSE ValidateOptions(options, k + 1)

\* The require! checks of create_poll, in order.
CreatePollChecks(question, options) ==
    IF ~(Len(options) >= 2) THEN "NotEnoughOptions"
    ELSE IF ~(Len(options) <= MAX_OPTIONS) THEN "TooManyOptions"
    ELSE IF ~(Len(question) <= MAX_QUESTION_LEN) THEN "QuestionTooLong"
    ELSE ValidateOptions(options, 1)

\* Faulty variant: one counter per allowed option, whatever the options given.
ZeroVotes_MaxOptions(options) == [i \in 1..MAX_OPTIONS |-> U64Zero]

\* vec![0u64; options.len()]
ZeroVotes(options) == [i \in 1..Len(options) |-> U64Zero]

\* The PollAccount create_poll writes.
NewPoll(creator, poll_id, question, options) ==
    [creator |-> creator, poll_id |-> poll_id, question |-> question,
     options |-> options, votes |-> ZeroVotes(options), is_active |-> TRUE]

\* Faulty variant: `init_if_needed`, an account at the address is taken as it is.
CreatePollAccounts_IfNeeded(ledger, creator, poll_id) ==
    LET key == PollSeeds(creator, poll_id)
    IN  IF key \in DOMAIN ledger.polls
        THEN Outcome("Ok", ledger.polls, ledger.vote_records)
        ELSE Outcome("Ok", Put(ledger.polls, key, ZeroPoll), ledger.vote_records)

\* Accounts of CreatePoll: `init` of the poll PDA fails when an account already
\* lives at the address, and otherwise allocates it.
CreatePollAccounts(ledger, creator, poll_id) ==
    LET key == PollSeeds(creator, poll_id)
    IN  IF key \in DOMAIN ledger.polls
        THEN Outcome("AccountAlreadyInUse", ledger.polls, ledger.vote_records)
        ELSE Outcome("Ok", Put(ledger.polls, key, ZeroPoll), ledger.vote_records)

\* The handler body, on the ledger the account stage left.
create_poll(ledger, creator, poll_id, question, options) ==
    LET key == PollSeeds(creator, poll_id)
        err == CreatePollChecks(question, options)
    IN  IF err # "Ok" THEN Outcome(err, ledger.polls, ledger.vote_records)
        ELSE Outcome("Ok",
                     Put(ledger.polls, key, NewPoll(creator, poll_id, question, options)),
                     ledger.vote_records)

\* The create_poll instruction: account stage, then handler.
CreatePollIx(ledger, creator, poll_id, question, options) ==
    LET acc == CreatePollAccounts(ledger, creator, poll_id)
    IN  IF acc.err # "Ok" THEN acc
        ELSE create_poll(Ledger(acc.polls, acc.vote_records),
                         creator, poll_id, question, options)

(***************************************************************************)
(* vote_poll.                                                              *)
(***************************************************************************)
\* Faulty variant: no has_one, the creator account named is not compared.
VotePollAccounts_NoHasOne(ledger, poll, voter, creator, option_index) ==
    LET key == VoteRecordSeeds(poll, voter, option_index)
    IN  IF key \in DOMAIN ledger.vote_records
        THEN Outcome("AccountAlreadyInUse", ledger.polls, ledger.vote_records)
        ELSE Outcome("Ok", ledger.polls, Put(ledger.vote_records, key, ZeroVoteRecord))

\* Accounts of VotePoll: `init` of the vote_record PDA, then has_one = creator
\* on the poll.
VotePollAccounts(ledger, poll, voter, creator, option_index) ==
    LET key == VoteRecordSeeds(poll, voter, option_index)
    IN  IF key \in DOMAIN ledger.vote_records
        THEN Outcome("AccountAlreadyInUse", ledger.polls, ledger.vote_records)
        ELSE LET allocated == Put(ledger.vote_records, key, ZeroVoteRecord)
             IN  IF ledger.polls[poll].creator # creator
                 THEN Outcome("ConstraintHasOne", ledger.polls, allocated)
                 ELSE Outcome("Ok", ledger.polls, allocated)

\* Faulty variant: the chosen option is not recorded.
NewVoteRecord_NoIndex(poll, voter, option_index) ==
    [voter |-> voter, poll |-> poll, option_index |-> 0]

\* The VoteRecord vote_poll writes.
NewVoteRecord(poll, voter, option_index) ==
    [voter |-> voter, poll |-> poll, option_index |-> option_index]

\* Faulty variant: the counters of the other options are cleared.
SetVotes_ClearOthers(votes, idx, n) ==
    [i \in DOMAIN votes |-> IF i = idx + 1 THEN n ELSE U64Zero]

\* Faulty variant: the first counter is written whatever the index.
SetVotes_First(votes, idx, n) == [votes EXCEPT ![1] = n]

\* poll.votes with votes[idx] replaced by n (idx is 0-based).
SetVotes(votes, idx, n) == [votes EXCEPT ![idx + 1] = n]

\* Faulty variant: the option index is checked before the is_active flag.
VotePollChecks_IndexFirst(p, option_index) ==
    IF ~(option_index < Len(p.options)) THEN "InvalidOption"
    ELSE IF ~p.is_active THEN "PollClosed"
    ELSE "Ok"

\* Faulty variant: the poll's is_active flag is not checked.
VotePollChecks_NoActive(p, option_index) ==
    IF ~(option_index < Len(p.options)) THEN "InvalidOption" ELSE "Ok"

\* Faulty variant: the index len(options) passes the range check.
VotePollChecks_OffByOne(p, option_index) ==
    IF ~p.is_active THEN "PollClosed"
    ELSE IF ~(option_index <= Len(p.options)) THEN "InvalidOption"
    ELSE "Ok"

\* The require! checks of vote_poll, in order.
VotePollChecks(p, option_index) ==
    IF ~p.is_active THEN "PollClosed"
    ELSE IF ~(option_index < Len(p.options)) THEN "InvalidOption"
    ELSE "Ok"

\* The handler body, on the ledger the account stage left.  poll.votes[idx] is
\* a bounds-checked index: out of range it panics and the transaction fails.
vote_poll(ledger, poll, voter, option_index) ==
    LET p == ledger.polls[poll]
        key == VoteRecordSeeds(poll, voter, option_index)
        err == VotePollChecks(p, option_index)
        written == Put(ledger.vote_records, key, NewVoteRecord(poll, voter, option_index))
    IN  IF err # "Ok" THEN Outcome(err, ledger.polls, ledger.vote_records)
        ELSE IF ~(option_index < Len(p.votes)) THEN Outcome("Panic", ledger.polls, written)
        ELSE LET sum == checked_add_1(p.votes[option_index + 1])
             IN  IF ~sum.some THEN Outcome("VoteOverflow", ledger.polls, written)
                 ELSE Outcome("Ok",
                              Put(ledger.polls, poll,
                                  [p EXCEPT !.votes = SetVotes(p.votes, option_index, sum.val)]),
                              written)

\* The vote_poll instruction: account stage, then handler.
VotePollIx(ledger, poll, voter, creator, option_index) ==
    LET acc == VotePollAccounts(ledger, poll, voter, creator, option_index)
    IN  IF acc.err # "Ok" THEN acc
        ELSE vote_poll(Ledger(acc.polls, acc.vote_records), poll, voter, option_index)

(***************************************************************************)
(* close_poll.  ClosePoll has no constraint beside the signer.             *)
(***************************************************************************)
\* Faulty variant: closing a poll clears its counters.
close_poll_ClearVotes(ledger, poll, creator) ==
    LET p == ledger.polls[poll]
    IN  IF p.creator # creator
        THEN Outcome("Unauthorized", ledger.polls, ledger.vote_records)
        ELSE IF ~p.is_active
        THEN Outcome("PollAlreadyClosed", ledger.polls, ledger.vote_records)
        ELSE Outcome("Ok",
                     Put(ledger.polls, poll,
                         [p EXCEPT !.is_active = FALSE, !.votes = ZeroVotes(p.options)]),
                     ledger.vote_records)

\* Faulty variant: no PollAlreadyClosed check, the flag is flipped.
close_poll_Toggle(ledger, poll, creator) ==
    LET p == ledger.polls[poll]
    IN  IF p.creator # creator
        THEN Outcome("Unauthorized", ledger.polls, ledger.vote_records)
        ELSE Outcome("Ok", Put(ledger.polls, poll, [p EXCEPT !.is_active = ~@]),
                     ledger.vote_records)

\* Faulty variant: no Unauthorized check, any signer closes the poll.
close_poll_AnySigner(ledger, poll, creator) ==
    LET p == ledger.polls[poll]
    IN  IF ~p.is_active
        THEN Outcome("PollAlreadyClosed", ledger.polls, ledger.vote_records)
        ELSE Outcome("Ok", Put(ledger.polls, poll, [p EXCEPT !.is_active = FALSE]),
                     ledger.vote_records)

close_poll(ledger, poll, creator) ==
    LET p == ledger.polls[poll]
    IN  IF p.creator # creator
        THEN Outcome("Unauthorized", ledger.polls, ledger.vote_records)
        ELSE IF ~p.is_active
        THEN Outcome("PollAlreadyClosed", ledger.polls, ledger.vote_records)
        ELSE Outcome("Ok", Put(ledger.polls, poll, [p EXCEPT !.is_active = FALSE]),
                     ledger.vote_records)

(***************************************************************************)
(* The state machine: one action per instruction.                          *)
(***************************************************************************)
\* What `last` records of an instruction: its name and its result.
Call(op, err) == [op |-> op, err |-> err]

\* What a transaction returns and the ledger it leaves.
Result(err, ledger) ==
    [err |-> err, polls |-> ledger.polls, vote_records |-> ledger.vote_records]

\* The transaction create_poll(poll_id, question, options) signed by creator,
\* on the current ledger.
CreatePollResult(creator, poll_id, question, options) ==
    LET before == Ledger(polls, vote_records)
        out == CreatePollIx(before, creator, poll_id, question, options)
    IN  Result(out.err, Commit(before, out))

\* The transaction vote_poll(option_index) signed by voter, on the account poll
\* and naming the account creator, on the current ledger.
VotePollResult(poll, voter, creator, option_index) ==
    LET before == Ledger(polls, vote_records)
        out == VotePollIx(before, poll, voter, creator, option_index)
    IN  Result(out.err, Commit(before, out))

\* The transaction close_poll signed by creator, on the account poll, on the
\* current ledger.
ClosePollResult(poll, creator) ==
    LET before == Ledger(polls, vote_records)
        out == close_poll(before, poll, creator)
    IN  Result(out.err, Commit(before, out))

\* The step a transaction with result r makes.
Apply(op, r) ==
    /\ last' = Call(op, r.err)
    /\ polls' = r.polls
    /\ vote_records' = r.vote_records

Init ==
    /\ polls = <<>>
    /\ vote_records = <<>>
    /\ last = Call("none", "Ok")

\* Any principal submits create_poll with any poll id and any of the inputs.
CreatePoll ==
    \E creator \in Principals, poll_id \in PollIds, inp \in CreateInputs :
        Apply("create_poll",
              CreatePollResult(creator, poll_id, inp.question, inp.options))

\* Any principal submits vote_poll on an existing poll, with any option index
\* and naming any principal as the poll's creator.
VotePoll ==
    \E poll \in DOMAIN polls, voter \in Principals, creator \in Principals,
       option_index \in OptionIndexes :
        Apply("vote_poll", VotePollResult(poll, voter, creator, option_index))

\* Any principal submits close_poll on an existing poll.
ClosePoll ==
    \E poll \in DOMAIN polls, creator \in Principals :
        Apply("close_poll", ClosePollResult(poll, creator))

Next == CreatePoll \/ VotePoll \/ ClosePoll

Spec == Init /\ [][Next]_vars

(***************************************************************************)
(* Properties.                                                             *)
(***************************************************************************)
\* The step is the transaction vote_poll(idx) of voter on poll, naming creator.
IsVote(poll, voter, creator, idx) ==
    /\ last'.op = "vote_poll"
    /\ Apply("vote_poll", VotePollResult(poll, voter, creator, idx))

\* The step is the transaction close_poll of caller on poll.
IsClose(poll, caller) ==
    /\ last'.op = "close_poll"
    /\ Apply("close_poll", ClosePollResult(poll, caller))

\* The step is the transaction create_poll(poll_id, question, options) of creator.
IsCreate(creator, poll_id, question, options) ==
    /\ last'.op = "create_poll"
    /\ Apply("create_poll", CreatePollResult(creator, poll_id, question, options))

\* The transaction left the ledger as it was.
Untouched(r) == r.polls = polls /\ r.vote_records = vote_records

\* The addresses of the VoteRecords of voter on poll.
VoteRecordsOf(poll, voter) ==
    {k \in DOMAIN vote_records :
        vote_records[k].poll = poll /\ vote_records[k].voter = voter}

HasVoted(poll, voter) == VoteRecordsOf(poll, voter) # {}

\* The addresses of the VoteRecords of poll for the option index idx.
BallotsFor(poll, idx) ==
    {k \in DOMAIN vote_records :
        vote_records[k].poll = poll /\ vote_records[k].option_index = idx}

\* C1: in every reachable state at most one VoteRecord exists for any
\* (poll, voter) pair: two VoteRecord accounts that hold the same poll and the
\* same voter are the same account.
C1_OneVoteRecordPerPair ==
    \A k1, k2 \in DOMAIN vote_records :
        (/\ vote_records[k1].poll = vote_records[k2].poll
         /\ vote_records[k1].voter = vote_records[k2].voter) => k1 = k2

\* C1 witness: a voter with a VoteRecord on a poll has submitted another vote.
C1_Witness ==
    /\ last = Call("vote_poll", "AccountAlreadyInUse")
    /\ \E poll \in DOMAIN polls, voter \in Principals :
           Cardinality(VoteRecordsOf(poll, voter)) = 1

\* C2: in every reachable state, for every poll and every option index
\* i < len(options), votes[i] is the number of VoteRecords of that poll with
\* option index i; and every VoteRecord is the marker of one such increment: it
\* names an existing poll and an index of that poll.
C2_CountersMatchRecords ==
    /\ \A poll \in DOMAIN polls :
           \A i \in 1..Len(polls[poll].options) :
               /\ i \in DOMAIN polls[poll].votes
               /\ U64ToNat(polls[poll].votes[i]) = Cardinality(BallotsFor(poll, i - 1))
    /\ \A k \in DOMAIN vote_records :
           /\ vote_records[k].poll \in DOMAIN polls
           /\ vote_records[k].option_index < Len(polls[vote_records[k].poll].options)

\* C2 witness: two voters have voted for option 1 of a poll while another poll
\* holds a ballot as well.
C2_Witness ==
    \E poll, other \in DOMAIN polls :
        /\ poll # other
        /\ Cardinality(BallotsFor(poll, 1)) = 2
        /\ U64ToNat(polls[poll].votes[2]) = 2
        /\ \E k \in DOMAIN vote_records : vote_records[k].poll = other

\* C3: a second vote of a voter on a poll, for any option index, fails with
\* AlreadyVoted and leaves all the counters of the poll unchanged.
C3_SecondVoteAlreadyVoted ==
    [][\A poll \in DOMAIN polls, voter \in Principals, idx \in OptionIndexes :
          (/\ HasVoted(poll, voter)
           /\ IsVote(poll, voter, polls[poll].creator, idx))
          => (/\ last'.err = "AlreadyVoted"
              /\ polls'[poll].votes = polls[poll].votes)]_vars

\* C4 as stated: once a poll is closed (is_active is false only after a
\* close_poll of its creator succeeded, see C6), every vote on it, by a voter
\* who has voted before or not, fails with PollClosed.
C4_AnyVoteFailsPollClosed ==
    [][\A poll \in DOMAIN polls, voter \in Principals, idx \in OptionIndexes :
          (/\ ~polls[poll].is_active
           /\ IsVote(poll, voter, polls[poll].creator, idx))
          => last'.err = "PollClosed"]_vars

\* C4 amended: every vote on a closed poll fails and changes nothing; it fails
\* with PollClosed when the voter has no VoteRecord for the poll and the request
\* names the poll's creator, and with the account-already-in-use error of the
\* VoteRecord's creation when the voter has voted before.
C4_ClosedPollRejectsVotes ==
    \A poll \in DOMAIN polls :
        ~polls[poll].is_active =>
            \A voter \in Principals, creator \in Principals, idx \in OptionIndexes :
                LET r == VotePollResult(poll, voter, creator, idx)
                IN  /\ r.err # "Ok"
                    /\ Untouched(r)
                    /\ HasVoted(poll, voter) => r.err = "AccountAlreadyInUse"
                    /\ (~HasVoted(poll, voter) /\ creator = polls[poll].creator)
                           => r.err = "PollClosed"

\* C4 witness: a vote was refused with PollClosed on a closed poll that holds
\* the VoteRecord of another voter.
C4_Witness ==
    /\ last = Call("vote_poll", "PollClosed")
    /\ \E poll \in DOMAIN polls :
           /\ ~polls[poll].is_active
           /\ \E voter \in Principals : HasVoted(poll, voter)
           /\ \E voter \in Principals : ~HasVoted(poll, voter)

\* C5: closed is terminal.  A poll whose is_active is false exists with
\* is_active false in the next state, whatever the step; and a close_poll of its
\* creator on it fails with PollAlreadyClosed and leaves the poll as it is.
C5_ClosedIsTerminal ==
    /\ [][\A poll \in DOMAIN polls :
              ~polls[poll].is_active
              => (poll \in DOMAIN polls' /\ ~polls'[poll].is_active)]_vars
    /\ [](\A poll \in DOMAIN polls :
              ~polls[poll].is_active =>
                  LET r == ClosePollResult(poll, polls[poll].creator)
                  IN  /\ r.err = "PollAlreadyClosed"
                      /\ r.polls[poll] = polls[poll]
                      /\ Untouched(r))

\* C5 witness: the creator's close_poll was refused with PollAlreadyClosed.
C5_Witness ==
    /\ last = Call("close_poll", "PollAlreadyClosed")
    /\ \E poll \in DOMAIN polls : ~polls[poll].is_active

\* C6: a close_poll signed by anyone but the poll's creator fails with
\* Unauthorized and changes nothing, the poll being active or closed; and a poll
\* goes from active to closed only by a successful close_poll of its creator.
C6_OnlyCreatorCloses ==
    /\ [](\A poll \in DOMAIN polls, caller \in Principals :
              caller # polls[poll].creator =>
                  LET r == ClosePollResult(poll, caller)
                  IN  r.err = "Unauthorized" /\ Untouched(r))
    /\ [][\A poll \in DOMAIN polls :
              (/\ polls[poll].is_active
               /\ poll \in DOMAIN polls'
               /\ ~polls'[poll].is_active)
              => (/\ last'.err = "Ok"
                  /\ IsClose(poll, polls[poll].creator))]_vars

\* C6 witness: a close_poll was refused with Unauthorized while every poll of
\* the ledger was already closed.
C6_Witness ==
    /\ last = Call("close_poll", "Unauthorized")
    /\ DOMAIN polls # {}
    /\ \A poll \in DOMAIN polls : ~polls[poll].is_active

\* The rules of create_poll, as the interface states them.
IsValidInput(question, options) ==
    /\ Len(options) >= 2
    /\ Len(options) <= MAX_OPTIONS
    /\ Len(question) <= MAX_QUESTION_LEN
    /\ \A k \in 1..Len(options) :
           Len(options[k]) >= 1 /\ Len(options[k]) <= MAX_OPTION_LEN

\* C7: for every question and options list within the rules, create_poll on an
\* unused (creator, poll_id) succeeds and stores a record with creator = the
\* caller, the given poll_id, question and options, one counter per option,
\* every counter zero, and is_active = true.
C7_CreateStoresPoll ==
    \A creator \in Principals, poll_id \in PollIds, inp \in CreateInputs :
        LET key == PollSeeds(creator, poll_id)
            r == CreatePollResult(creator, poll_id, inp.question, inp.options)
        IN  (IsValidInput(inp.question, inp.options) /\ key \notin DOMAIN polls)
            => (/\ r.err = "Ok"
                /\ key \in DOMAIN r.polls
                /\ r.polls[key].creator = creator
                /\ r.polls[key].poll_id = poll_id
                /\ r.polls[key].question = inp.question
                /\ r.polls[key].options = inp.options
                /\ Len(r.polls[key].votes) = Len(r.polls[key].options)
                /\ \A i \in 1..Len(r.polls[key].votes) :
                       U64ToNat(r.polls[key].votes[i]) = 0
                /\ r.polls[key].is_active = TRUE)

\* C7 witness: create_poll has just succeeded, and the ledger holds a poll of 2
\* options and a poll of MAX_OPTIONS options with a question of
\* MAX_QUESTION_LEN bytes.
C7_Witness ==
    /\ last = Call("create_poll", "Ok")
    /\ \E poll \in DOMAIN polls : Len(polls[poll].options) = 2
    /\ \E poll \in DOMAIN polls :
           /\ Len(polls[poll].options) = MAX_OPTIONS
           /\ Len(polls[poll].question) = MAX_QUESTION_LEN

\* The errors whose rule an input breaks.
RulesBroken(question, options) ==
    {e \in {"NotEnoughOptions", "TooManyOptions", "QuestionTooLong",
            "OptionTooLong", "EmptyOption"} :
        \/ e = "NotEnoughOptions" /\ Len(options) < 2
        \/ e = "TooManyOptions" /\ Len(options) > MAX_OPTIONS
        \/ e = "QuestionTooLong" /\ Len(question) > MAX_QUESTION_LEN
        \/ e = "OptionTooLong"
           /\ \E k \in 1..Len(options) : Len(options[k]) > MAX_OPTION_LEN
        \/ e = "EmptyOption" /\ \E k \in 1..Len(options) : Len(options[k]) = 0}

\* The first rule an input breaks, in the order create_poll checks them: the
\* number of options, the question, then the options one by one.
FirstRuleBroken(question, options) ==
    LET bad == {k \in 1..Len(options) :
                   Len(options[k]) > MAX_OPTION_LEN \/ Len(options[k]) = 0}
        first == CHOOSE k \in bad : \A j \in bad : k <= j
    IN  IF Len(options) < 2 THEN "NotEnoughOptions"
        ELSE IF Len(options) > MAX_OPTIONS THEN "TooManyOptions"
        ELSE IF Len(question) > MAX_QUESTION_LEN THEN "QuestionTooLong"
        ELSE IF bad = {} THEN "Ok"
        ELSE IF Len(options[first]) = 0 THEN "EmptyOption"
        ELSE "OptionTooLong"

\* C8 as stated: a create_poll whose input breaks a rule fails with the error
\* of a rule it breaks, no poll record exists at the derived address afterwards
\* and no other record is changed.
C8_InvalidCreateLeavesNoPoll ==
    [][\A creator \in Principals, poll_id \in PollIds, inp \in InvalidInputs :
          IsCreate(creator, poll_id, inp.question, inp.options)
          => (/\ last'.err \in RulesBroken(inp.question, inp.options)
              /\ PollSeeds(creator, poll_id) \notin DOMAIN polls'
              /\ \A poll \in DOMAIN polls : polls'[poll] = polls[poll]
              /\ vote_records' = vote_records)]_vars

\* C8 amended: on an unused (creator, poll_id), a create_poll whose input
\* breaks a rule fails with the error of the first rule it breaks, no poll
\* record exists at the derived address afterwards and nothing else changes; on
\* a (creator, poll_id) that holds a poll it fails with the account-already-in-
\* use error of the poll's creation, whatever the input, and changes nothing.
C8_InvalidCreateRejected ==
    \A creator \in Principals, poll_id \in PollIds, inp \in CreateInputs :
        LET key == PollSeeds(creator, poll_id)
            r == CreatePollResult(creator, poll_id, inp.question, inp.options)
        IN  /\ (RulesBroken(inp.question, inp.options) # {} /\ key \notin DOMAIN polls)
               => (/\ r.err = FirstRuleBroken(inp.question, inp.options)
                   /\ r.err \in RulesBroken(inp.question, inp.options)
                   /\ key \notin DOMAIN r.polls
                   /\ Untouched(r))
            /\ key \in DOMAIN polls
               => (r.err = "AccountAlreadyInUse" /\ Untouched(r))

\* C8 witness: a create_poll was refused for an empty option while the ledger
\* holds a poll with ballots.
C8_Witness ==
    /\ last = Call("create_poll", "EmptyOption")
    /\ DOMAIN polls # {}
    /\ DOMAIN vote_records # {}

\* C9: on an active poll, a vote_poll(i) with i < len(options) of a voter with
\* no VoteRecord for the poll (the request naming the poll's creator) succeeds,
\* increases votes[i] by exactly 1, leaves every other counter and every other
\* poll unchanged, and creates exactly one VoteRecord, which holds the voter,
\* the poll and i and is the only one of (poll, voter).
C9_FirstVoteCounts ==
    \A poll \in DOMAIN polls, voter \in Principals, idx \in OptionIndexes :
        (/\ polls[poll].is_active
         /\ ~HasVoted(poll, voter)
         /\ idx < Len(polls[poll].options))
        => LET r == VotePollResult(poll, voter, polls[poll].creator, idx)
               created == DOMAIN r.vote_records \ DOMAIN vote_records
           IN  /\ r.err = "Ok"
               /\ U64ToNat(r.polls[poll].votes[idx + 1])
                      = U64ToNat(polls[poll].votes[idx + 1]) + 1
               /\ \A j \in DOMAIN polls[poll].votes :
                      j # idx + 1 => r.polls[poll].votes[j] = polls[poll].votes[j]
               /\ DOMAIN r.polls[poll].votes = DOMAIN polls[poll].votes
               /\ \A other \in DOMAIN polls : other # poll => r.polls[other] = polls[other]
               /\ Cardinality(created) = 1
               /\ \A k \in created :
                      /\ r.vote_records[k].voter = voter
                      /\ r.vote_records[k].poll = poll
                      /\ r.vote_records[k].option_index = idx
               /\ \A k \in DOMAIN vote_records : r.vote_records[k] = vote_records[k]
               /\ Cardinality({k \in DOMAIN r.vote_records :
                                  /\ r.vote_records[k].poll = poll
                                  /\ r.vote_records[k].voter = voter}) = 1

\* C9 witness: a vote has just succeeded and a VoteRecord for option index 2
\* exists.
C9_Witness ==
    /\ last = Call("vote_poll", "Ok")
    /\ \E k \in DOMAIN vote_records : vote_records[k].option_index = 2

\* C10 as stated: a vote on an active poll with an option index >= len(options)
\* fails with InvalidOption and changes nothing, the voter having a VoteRecord
\* for the poll already or not.
C10_InvalidIndexFailsInvalidOption ==
    [][\A poll \in DOMAIN polls, voter \in Principals, idx \in OptionIndexes :
          (/\ polls[poll].is_active
           /\ idx >= Len(polls[poll].options)
           /\ IsVote(poll, voter, polls[poll].creator, idx))
          => (/\ last'.err = "InvalidOption"
              /\ polls' = polls
              /\ vote_records' = vote_records)]_vars

\* C10 amended: a vote on an active poll with an option index >= len(options)
\* fails and changes nothing: no counter changes and no VoteRecord is created.
\* It fails with InvalidOption when the voter has no VoteRecord for the poll and
\* the request names the poll's creator, and with the account-already-in-use
\* error of the VoteRecord's creation when the voter has one.
C10_InvalidIndexRejected ==
    \A poll \in DOMAIN polls, voter \in Principals, creator \in Principals,
       idx \in OptionIndexes :
        (polls[poll].is_active /\ idx >= Len(polls[poll].options))
        => LET r == VotePollResult(poll, voter, creator, idx)
           IN  /\ r.err # "Ok"
               /\ Untouched(r)
               /\ HasVoted(poll, voter) => r.err = "AccountAlreadyInUse"
               /\ (~HasVoted(poll, voter) /\ creator = polls[poll].creator)
                      => r.err = "InvalidOption"

\* C10 witness: a vote was refused with InvalidOption while a poll is active
\* and a voter has no VoteRecord for it.
C10_Witness ==
    /\ last = Call("vote_poll", "InvalidOption")
    /\ \E poll \in DOMAIN polls, voter \in Principals :
           polls[poll].is_active /\ ~HasVoted(poll, voter)

(***************************************************************************)
(* Sequences of transactions.  Transactions that write the same account    *)
(* run one after another, each atomically, so the invocations submitted    *)
(* together run in some order, each on the ledger the one before left.     *)
(***************************************************************************)
\* Longest batch of vote invocations one voter submits together.
MaxBatch == 3

\* The transaction vote_poll(option_index) signed by voter, on the account poll
\* and naming the account creator, on the ledger given.
VoteTx(ledger, poll, voter, creator, option_index) ==
    LET out == VotePollIx(ledger, poll, voter, creator, option_index)
    IN  Result(out.err, Commit(ledger, out))

\* The ledger a transaction's result holds.
LedgerOf(r) == Ledger(r.polls, r.vote_records)

RECURSIVE RunVotes(_, _, _, _, _)
\* The vote invocations of voter on poll with the option indexes idxs, run in
\* that order: the errors they return, in order, and the ledger they leave.
RunVotes(ledger, poll, voter, creator, idxs) ==
    IF idxs = <<>> THEN [errs |-> <<>>, ledger |-> ledger]
    ELSE LET r == VoteTx(ledger, poll, voter, creator, Head(idxs))
             rest == RunVotes(LedgerOf(r), poll, voter, creator, Tail(idxs))
         IN  [errs |-> <<r.err>> \o rest.errs, ledger |-> rest.ledger]

RECURSIVE SumVotes(_, _)
\* votes[1] + ... + votes[k] of a list of counters.
SumVotes(votes, k) ==
    IF k = 0 THEN 0 ELSE U64ToNat(votes[k]) + SumVotes(votes, k - 1)

\* The number of votes a poll has counted, over all its options.
TotalVotes(p) == SumVotes(p.votes, Len(p.votes))

\* The option indexes submitted that are valid for the poll p.
ValidIndexes(p) == {i \in OptionIndexes : i < Len(p.options)}

\* The batches of 2..MaxBatch valid option indexes, in every order.
VoteBatches(p) ==
    UNION {[1..n -> ValidIndexes(p)] : n \in 2..MaxBatch}

\* C11: when a voter without a VoteRecord submits two or more vote invocations
\* on an active poll together, with equal or different valid option indexes,
\* then in whatever order they run exactly one succeeds, every other one fails
\* with AlreadyVoted, the counters of the poll grow by exactly 1 in total and
\* one VoteRecord of (poll, voter) exists.
C11_ConcurrentVotesAlreadyVoted ==
    \A poll \in DOMAIN polls, voter \in Principals :
        (polls[poll].is_active /\ ~HasVoted(poll, voter))
        => \A batch \in VoteBatches(polls[poll]) :
               LET run == RunVotes(Ledger(polls, vote_records), poll, voter,
                                   polls[poll].creator, batch)
                   won == {k \in DOMAIN run.errs : run.errs[k] = "Ok"}
               IN  /\ Cardinality(won) = 1
                   /\ \A k \in DOMAIN run.errs \ won : run.errs[k] = "AlreadyVoted"
                   /\ TotalVotes(run.ledger.polls[poll]) = TotalVotes(polls[poll]) + 1
                   /\ Cardinality({k \in DOMAIN run.ledger.vote_records :
                                      /\ run.ledger.vote_records[k].poll = poll
                                      /\ run.ledger.vote_records[k].voter = voter}) = 1

\* C12: a create_poll for a (creator, poll_id) whose derived address holds a
\* poll fails, with inputs within the rules as well, and the record stays as it
\* is: its question, options, votes and is_active are neither reset nor merged,
\* and nothing else of the ledger changes.
C12_DuplicateCreateRejected ==
    \A creator \in Principals, poll_id \in PollIds, inp \in ValidInputs :
        LET key == PollSeeds(creator, poll_id)
            r == CreatePollResult(creator, poll_id, inp.question, inp.options)
        IN  key \in DOMAIN polls
            => (/\ r.err # "Ok"
                /\ key \in DOMAIN r.polls
                /\ r.polls[key].question = polls[key].question
                /\ r.polls[key].options = polls[key].options
                /\ r.polls[key].votes = polls[key].votes
                /\ r.polls[key].is_active = polls[key].is_active
                /\ r.polls[key] = polls[key]
                /\ Untouched(r))

\* C12 witness: a create_poll was refused because its address is taken, while
\* the poll at an address is closed and has counted a vote.
C12_Witness ==
    /\ last = Call("create_poll", "AccountAlreadyInUse")
    /\ \E poll \in DOMAIN polls :
           ~polls[poll].is_active /\ TotalVotes(polls[poll]) > 0

(***************************************************************************)
(* Counters at the end of the u64 range.  A counter gets there by 2^64 - 1 *)
(* votes of as many voters; the specification below starts from a poll     *)
(* whose counters are already there.  The VoteRecords of those voters are  *)
(* accounts of voters other than Principals and are left out of the        *)
(* ledger, so the counters are compared as u64 values, never counted.      *)
(***************************************************************************)
\* u64::MAX - 1
U64NearMax == <<LimbBase - 1, LimbBase - 1, LimbBase - 1, LimbBase - 2>>

\* The counter values a poll starts with.
StartCounters == {U64Zero, U64NearMax, U64Max}

\* The ledger holds one active poll of two options, of any principal, with any
\* of the counter values on each option.
InitOverflow ==
    /\ \E creator \in Principals, poll_id \in PollIds, v0, v1 \in StartCounters :
           LET inp == [question |-> Str(0, "q"),
                       options |-> <<Str(1, "a"), Str(MAX_OPTION_LEN, "b")>>]
           IN  /\ inp \in ValidInputs
               /\ polls = Put(<<>>, PollSeeds(creator, poll_id),
                              [NewPoll(creator, poll_id, inp.question, inp.options)
                                  EXCEPT !.votes = <<v0, v1>>])
    /\ vote_records = <<>>
    /\ last = Call("none", "Ok")

SpecOverflow == InitOverflow /\ [][Next]_vars

\* C13: a first vote for option i of an active poll whose votes[i] holds
\* u64::MAX fails with VoteOverflow: the counter keeps u64::MAX (it does not
\* wrap to 0), no other counter changes, and no VoteRecord of (poll, voter)
\* is left behind.
C13_OverflowRejected ==
    \A poll \in DOMAIN polls, voter \in Principals, idx \in OptionIndexes :
        (/\ polls[poll].is_active
         /\ ~HasVoted(poll, voter)
         /\ idx < Len(polls[poll].options)
         /\ polls[poll].votes[idx + 1] = U64Max)
        => LET r == VotePollResult(poll, voter, polls[poll].creator, idx)
           IN  /\ r.err = "VoteOverflow"
               /\ r.polls[poll].votes[idx + 1] = U64Max
               /\ r.polls[poll].votes[idx + 1] # U64Zero
               /\ r.polls[poll].votes = polls[poll].votes
               /\ \A k \in DOMAIN r.vote_records :
                      ~(r.vote_records[k].poll = poll /\ r.vote_records[k].voter = voter)
               /\ VoteRecordSeeds(poll, voter, idx) \notin DOMAIN r.vote_records
               /\ Untouched(r)

\* C13 witness: a vote was refused with VoteOverflow on a poll one of whose
\* counters a vote of a principal has brought to u64::MAX.
C13_Witness ==
    /\ last = Call("vote_poll", "VoteOverflow")
    /\ \E poll \in DOMAIN polls, k \in DOMAIN vote_records :
           /\ vote_records[k].poll = poll
           /\ polls[poll].votes[vote_records[k].option_index + 1] = U64Max

\* C14: in every reachable state every poll has as many counters as options;
\* and no step (a vote, a close_poll, a create_poll that fails or that names an
\* address in use, or any other) removes a poll, changes the options of a poll
\* or decreases one of its counters.
C14_OptionsFixedVotesMonotone ==
    /\ [](\A poll \in DOMAIN polls :
              Len(polls[poll].votes) = Len(polls[poll].options))
    /\ [][\A poll \in DOMAIN polls :
              /\ poll \in DOMAIN polls'
              /\ polls'[poll].options = polls[poll].options
              /\ DOMAIN polls'[poll].votes = DOMAIN polls[poll].votes
              /\ \A i \in DOMAIN polls[poll].votes :
                     U64ToNat(polls'[poll].votes[i]) >= U64ToNat(polls[poll].votes[i])]_vars

\* C14 witness: a poll of MAX_OPTIONS options has counted votes for two of its
\* options and has then been closed.
C14_Witness ==
    /\ last = Call("close_poll", "Ok")
    /\ \E poll \in DOMAIN polls :
           /\ ~polls[poll].is_active
           /\ Len(polls[poll].options) = MAX_OPTIONS
           /\ U64ToNat(polls[poll].votes[1]) = 1
           /\ U64ToNat(polls[poll].votes[3]) = 1

(***************************************************************************)
(* Account sizes.  An account is stored as its 8-byte discriminator        *)
(* followed by the Borsh encoding of its fields: a Pubkey is 32 bytes, a   *)
(* u64 8, a u8 and a bool 1, a String a 4-byte length and its bytes, a Vec *)
(* a 4-byte length and its elements.                                       *)
(***************************************************************************)
\* Faulty variant: the options are budgeted without their length prefixes and
\* no padding is added.
calculate_max_space_NoPrefixes ==
    8 + 32 + 8 + (4 + MAX_QUESTION_LEN) + (4 + (MAX_OPTIONS * MAX_OPTION_LEN))
      + (4 + (MAX_OPTIONS * 8)) + 1 + 1

\* PollAccount::calculate_max_space(), the space of the poll account.
calculate_max_space ==
    8 + 32 + 8 + (4 + MAX_QUESTION_LEN) + (4 + (MAX_OPTIONS * (4 + MAX_OPTION_LEN)))
      + (4 + (MAX_OPTIONS * 8)) + 1 + 1 + 32

\* VoteRecord::SIZE, the space of the vote_record account.
VoteRecord_SIZE == 8 + 32 + 32 + 1 + 1

RECURSIVE StringsSize(_, _)
\* The bytes of the first k strings of a Vec<String>, each with its length.
StringsSize(options, k) ==
    IF k = 0 THEN 0 ELSE (4 + Len(options[k])) + StringsSize(options, k - 1)

\* The bytes a PollAccount occupies: discriminator, creator, poll_id, question,
\* options, votes, is_active, bump.
PollAccountSize(p) ==
    8 + 32 + 8 + (4 + Len(p.question)) + (4 + StringsSize(p.options, Len(p.options)))
      + (4 + 8 * Len(p.votes)) + 1 + 1

\* The bytes a VoteRecord occupies: discriminator, voter, poll, option_index,
\* bump.
VoteRecordSize(v) == 8 + 32 + 32 + 1 + 1

\* Questions and option lists around the limits of create_poll: every number
\* of options, question length and option length at, below and above a limit.
SizeInputs ==
    {[question |-> Str(q, "q"), options |-> Rep(n, Str(l, "o"))] :
        q \in {0, 1, MAX_QUESTION_LEN, MAX_QUESTION_LEN + 1},
        n \in {1, 2, MAX_OPTIONS, MAX_OPTIONS + 1},
        l \in {0, 1, MAX_OPTION_LEN, MAX_OPTION_LEN + 1}}

\* C15: the space calculate_max_space allots from MAX_OPTIONS = 10,
\* MAX_QUESTION_LEN = 200 and MAX_OPTION_LEN = 50 is at least the serialized
\* size 8 + 32 + 8 + (4 + len(question)) + (4 + sum of (4 + len(option)))
\* + (4 + 8 * len(options)) + 1 + 1 of every poll create_poll accepts and of
\* every poll of the ledger, whatever votes it has counted since; and the size
\* of a VoteRecord is the constant 74, which is the space of its account.
C15_SpaceCoversEveryPoll ==
    /\ MAX_OPTIONS = 10 /\ MAX_QUESTION_LEN = 200 /\ MAX_OPTION_LEN = 50
    /\ \A creator \in Principals, poll_id \in PollIds,
          inp \in CreateInputs \cup SizeInputs :
           CreatePollChecks(inp.question, inp.options) = "Ok"
           => LET p == NewPoll(creator, poll_id, inp.question, inp.options)
              IN  /\ PollAccountSize(p)
                         = 8 + 32 + 8 + (4 + Len(inp.question))
                             + (4 + StringsSize(inp.options, Len(inp.options)))
                             + (4 + 8 * Len(inp.options)) + 1 + 1
                  /\ PollAccountSize(p) <= calculate_max_space
    /\ \A poll \in DOMAIN polls : PollAccountSize(polls[poll]) <= calculate_max_space
    /\ VoteRecord_SIZE = 74
    /\ \A k \in DOMAIN vote_records : VoteRecordSize(vote_records[k]) = VoteRecord_SIZE

\* C15 witness: the ledger holds a poll of the largest size create_poll
\* accepts, 32 bytes below the space allotted, which has counted a vote, and a
\* VoteRecord.
C15_Witness ==
    /\ \E poll \in DOMAIN polls :
           /\ PollAccountSize(polls[poll]) = calculate_max_space - 32
           /\ Len(polls[poll].question) = MAX_QUESTION_LEN
           /\ TotalVotes(polls[poll]) = 1
    /\ \E k \in DOMAIN vote_records : VoteRecordSize(vote_records[k]) = 74

\* C16: votes of different voters on an active poll are independent.  For
\* voters a # b without a VoteRecord for the poll and valid indexes i and j,
\* equal or not, vote(a, i) then vote(b, j) and vote(b, j) then vote(a, i)
\* succeed in both steps and leave the same ledger: the same counters and the
\* same two VoteRecords.
C16_VotesCommute ==
    \A poll \in DOMAIN polls, a \in Principals, b \in Principals :
        (/\ a # b
         /\ polls[poll].is_active
         /\ ~HasVoted(poll, a)
         /\ ~HasVoted(poll, b))
        => \A i \in ValidIndexes(polls[poll]), j \in ValidIndexes(polls[poll]) :
               LET creator == polls[poll].creator
                   now == Ledger(polls, vote_records)
                   a1 == VoteTx(now, poll, a, creator, i)
                   b2 == VoteTx(LedgerOf(a1), poll, b, creator, j)
                   b1 == VoteTx(now, poll, b, creator, j)
                   a2 == VoteTx(LedgerOf(b1), poll, a, creator, i)
               IN  /\ a1.err = "Ok" /\ b2.err = "Ok"
                   /\ b1.err = "Ok" /\ a2.err = "Ok"
                   /\ b2.polls = a2.polls
                   /\ b2.vote_records = a2.vote_records
                   /\ Cardinality(DOMAIN b2.vote_records \ DOMAIN vote_records) = 2
                   /\ TotalVotes(b2.polls[poll]) = TotalVotes(polls[poll]) + 2

\* C16 witness: the two principals have voted on an active poll, for different
\* options, and on another poll, for the same option.
C16_Witness ==
    /\ last = Call("vote_poll", "Ok")
    /\ \E poll, other \in DOMAIN polls :
           /\ poll # other
           /\ polls[poll].is_active
           /\ \E k1, k2 \in DOMAIN vote_records :
                  /\ vote_records[k1].poll = poll /\ vote_records[k2].poll = poll
                  /\ vote_records[k1].voter # vote_records[k2].voter
                  /\ vote_records[k1].option_index # vote_records[k2].option_index
           /\ \E k1, k2 \in DOMAIN vote_records :
                  /\ vote_records[k1].poll = other /\ vote_records[k2].poll = other
                  /\ vote_records[k1].voter # vote_records[k2].voter
                  /\ vote_records[k1].option_index = vote_records[k2].option_index

\* v + 1 = w for two u64 counters: one limb is one more, the limbs above it
\* are equal, and the limbs below it were all full and are now 0.
IsNextCounter(v, w) ==
    \E k \in 1..4 :
        /\ w[k] = v[k] + 1
        /\ w[k] < LimbBase
        /\ \A i \in 1..(k - 1) : w[i] = v[i]
        /\ \A i \in (k + 1)..4 : v[i] = LimbBase - 1 /\ w[i] = 0

\* C17: a vote that fails with InvalidOption or VoteOverflow does not use up
\* the voter's vote.  The failed transaction leaves the ledger as it was, and a
\* vote of the same voter on the same poll, still active, with a valid index
\* whose counter is below u64::MAX then succeeds and is counted once: that
\* counter grows by 1, no other changes, and the voter has one VoteRecord.
C17_FailedVoteKeepsVote ==
    /\ [][(last'.op = "vote_poll" /\ last'.err \in {"InvalidOption", "VoteOverflow"})
          => UNCHANGED <<polls, vote_records>>]_vars
    /\ [](\A poll \in DOMAIN polls, voter \in Principals, bad \in OptionIndexes :
              LET creator == polls[poll].creator
                  failed == VoteTx(Ledger(polls, vote_records), poll, voter, creator, bad)
              IN  failed.err \in {"InvalidOption", "VoteOverflow"}
                  => /\ Untouched(failed)
                     /\ polls[poll].is_active
                     /\ ~HasVoted(poll, voter)
                     /\ \A idx \in ValidIndexes(polls[poll]) :
                            polls[poll].votes[idx + 1] # U64Max
                            => LET r == VoteTx(LedgerOf(failed), poll, voter, creator, idx)
                               IN  /\ r.err = "Ok"
                                   /\ IsNextCounter(polls[poll].votes[idx + 1],
                                                    r.polls[poll].votes[idx + 1])
                                   /\ \A j \in DOMAIN polls[poll].votes :
                                          j # idx + 1
                                          => r.polls[poll].votes[j] = polls[poll].votes[j]
                                   /\ Cardinality({k \in DOMAIN r.vote_records :
                                          /\ r.vote_records[k].poll = poll
                                          /\ r.vote_records[k].voter = voter}) = 1
                                   /\ Cardinality(DOMAIN r.vote_records)
                                          = Cardinality(DOMAIN vote_records) + 1)

\* C17 witness: a vote was refused with VoteOverflow on an active poll whose
\* other counter is one below u64::MAX, while a voter has no VoteRecord for it.
C17_Witness ==
    /\ last = Call("vote_poll", "VoteOverflow")
    /\ \E poll \in DOMAIN polls, voter \in Principals :
           /\ polls[poll].is_active
           /\ ~HasVoted(poll, voter)
           /\ polls[poll].votes[1] = U64Max
           /\ polls[poll].votes[2] = U64NearMax

\* The addresses of the VoteRecords of poll in the account map vs.
RecordsOfPoll(vs, poll) == {k \in DOMAIN vs : vs[k].poll = poll}

\* C18: the tally of a closed poll is final.  A close_poll that succeeds
\* changes is_active of its poll and nothing else: votes, options, question,
\* creator and poll_id of the poll, the other polls and the VoteRecords stay.
\* And no step changes a counter of a closed poll, creates or changes a
\* VoteRecord of it, or reopens it, so that nothing does from then on.
C18_ClosedTallyFinal ==
    /\ [](\A poll \in DOMAIN polls, caller \in Principals :
              LET r == ClosePollResult(poll, caller)
              IN  r.err = "Ok"
                  => /\ polls[poll].is_active
                     /\ ~r.polls[poll].is_active
                     /\ r.polls[poll].votes = polls[poll].votes
                     /\ r.polls[poll].options = polls[poll].options
                     /\ r.polls[poll].question = polls[poll].question
                     /\ r.polls[poll].creator = polls[poll].creator
                     /\ r.polls[poll].poll_id = polls[poll].poll_id
                     /\ r.polls = [polls EXCEPT ![poll].is_active = FALSE]
                     /\ r.vote_records = vote_records)
    /\ [][\A poll \in DOMAIN polls :
              ~polls[poll].is_active
              => /\ poll \in DOMAIN polls'
                 /\ polls'[poll] = polls[poll]
                 /\ RecordsOfPoll(vote_records', poll) = RecordsOfPoll(vote_records, poll)
                 /\ \A k \in RecordsOfPoll(vote_records, poll) :
                        vote_records'[k] = vote_records[k]]_vars

\* C18 witness: a vote has just been counted on an active poll while the other
\* poll is closed with a tally of one vote.
C18_Witness ==
    /\ last = Call("vote_poll", "Ok")
    /\ \E poll, other \in DOMAIN polls :
           /\ ~polls[poll].is_active
           /\ TotalVotes(polls[poll]) = 1
           /\ polls[other].is_active
           /\ TotalVotes(polls[other]) > 0

\* C19: vote_poll checks is_active before the option index.  A vote on a closed
\* poll with an option index >= len(options), of a voter without a VoteRecord
\* for it, fails with PollClosed and not with InvalidOption; and no vote, on
\* any poll and with any index, indexes votes out of range.
C19_ClosedBeforeIndex ==
    \A poll \in DOMAIN polls, voter \in Principals, idx \in OptionIndexes :
        /\ (/\ ~polls[poll].is_active
            /\ ~HasVoted(poll, voter)
            /\ idx >= Len(polls[poll].options))
           => LET r == VotePollResult(poll, voter, polls[poll].creator, idx)
              IN  /\ r.err = "PollClosed"
                  /\ r.err # "InvalidOption"
                  /\ Untouched(r)
        /\ \A creator \in Principals :
               VotePollIx(Ledger(polls, vote_records), poll, voter, creator, idx).err
                   # "Panic"

\* C19 witness: a vote was refused with PollClosed while every poll is closed
\* and none holds a VoteRecord.
C19_Witness ==
    /\ last = Call("vote_poll", "PollClosed")
    /\ Cardinality(DOMAIN polls) = 2
    /\ \A poll \in DOMAIN polls : ~polls[poll].is_active
    /\ vote_records = <<>>

\* C20: a vote is accepted only when the creator account named by the request
\* is the poll's creator.  A vote naming another account is rejected with no
\* counter changed and no VoteRecord created; on an active poll, with a valid
\* index and of a voter without a VoteRecord, the has_one constraint rejects it.
C20_VoteNamesCreator ==
    \A poll \in DOMAIN polls, voter \in Principals, creator \in Principals,
       idx \in OptionIndexes :
        LET r == VotePollResult(poll, voter, creator, idx)
        IN  /\ r.err = "Ok" => creator = polls[poll].creator
            /\ creator # polls[poll].creator
               => /\ r.err # "Ok"
                  /\ r.polls[poll].votes = polls[poll].votes
                  /\ DOMAIN r.vote_records = DOMAIN vote_records
                  /\ Untouched(r)
                  /\ (/\ polls[poll].is_active
                      /\ idx < Len(polls[poll].options)
                      /\ ~HasVoted(poll, voter))
                     => r.err = "ConstraintHasOne"

\* C20 witness: a vote was rejected by the has_one constraint while a poll is
\* active and a voter has no VoteRecord for it.
C20_Witness ==
    /\ last = Call("vote_poll", "ConstraintHasOne")
    /\ \E poll \in DOMAIN polls, voter \in Principals :
           polls[poll].is_active /\ ~HasVoted(poll, voter)

====
